---- MODULE Spec2Model ----
(***************************************************************************)
(* filer-api: upload handler, in-memory job registry, CloudConvert webhook  *)
(* receiver (signature verification + event dispatch), status and download  *)
(* handlers.  Modelled from src/main.py and                                 *)
(* src/services/cloudconvert_service.py.                                    *)
(*                                                                         *)
(* Spec: the service, handlers taken as atomic between their awaits.       *)
(* SpecThreads: the same with the registry update of main.py:170-172 taken *)
(* statement by statement against the status and download threads.         *)
(* SpecFiles: deliveries and downloads once every job id is registered.    *)
(* SpecUploads: uploads with one more suspended handler.                   *)
(* SpecSig, SpecExtract: verify_signature and extract_download_url alone.  *)
(***************************************************************************)
EXTENDS Integers, Sequences, FiniteSets, TLC

VARIABLES
    WEBHOOK_SECRET,  \* main.py:15   os.getenv("WEBHOOK_SECRET"), possibly None
    jobs,            \* main.py:39   the in-memory registry, job id -> record
    uploads,         \* main.py:34   UPLOAD_DIR: filename -> bytes
    outputs,         \* main.py:35   OUTPUT_DIR: filename -> bytes
    issued,          \* number of job ids the collaborator has issued so far
    served,          \* number of requests that have arrived in the run
    reqs,            \* handlers suspended at an await, one per slot
    last,            \* the response most recently sent, with what produced it
    seenTerminal,    \* job ids the status handler has reported finished/failed
                     \* (a status response says in "again" whether its job was)
    hookFailed,      \* job ids for which a job.failed webhook was processed
    sig,             \* a single call of a function checked on its own
    fetched,         \* job id -> the bytes last fetched from its export URL
    hooked           \* job ids whose record a delivery's handler has reached

vars == <<WEBHOOK_SECRET, jobs, uploads, outputs, issued, served, reqs, last,
          seenTerminal, hookFailed, sig, fetched, hooked>>

---------------------------------------------------------------------------
(* Bounds of the model.                                                    *)

\* job ids the collaborator issues: 1..MaxJobs
MaxJobs == 2
\* handlers that may be suspended at an await at the same time
MaxInflight == 1
\* requests (uploads, deliveries, status and download requests) in a run
MaxRequests == 4
\* key=value elements in a signature header given to verify_signature alone
MaxPairs == 2
\* distinct raw bodies given to verify_signature alone
MaxSigBodies == 2
\* tasks in a task list given to extract_download_url alone
MaxTasks == 3

---------------------------------------------------------------------------
(* Keyed hash.  hmac.new(key, msg, sha256).hexdigest() is modelled by a    *)
(* two-hex-digit toy MAC that is injective on the keys and messages of the *)
(* model (collision resistance), and depends on both key and message.      *)

NoSecret == "<None>"
Secrets == {"k1", "k2"}

HexDigits == <<"0","1","2","3","4","5","6","7","8","9","a","b","c","d","e","f">>

encode(secret) == IF secret = "k1" THEN 1 ELSE 2

hexdigest(n) == HexDigits[((n \div 16) % 16) + 1] \o HexDigits[(n % 16) + 1]

hmac_new(key, msg) == hexdigest((101 * encode(key) + msg) % 256)

compare_digest(a, b) == a = b

---------------------------------------------------------------------------
(* verify_signature (main.py:43-73).  A header string is represented by    *)
(* what signature_header.split(",") and x.split("=") make of it: a         *)
(* sequence of elements, each a non-empty sequence of "="-free fields.     *)
(* An absent header (None) is the empty sequence, which no string splits   *)
(* into; the empty string splits into the single element <<"">>.           *)

NoHeader == << >>
EmptyHeader == << <<"">> >>
NoneValue == "<None>"

\* main.py:53  k, v = x.split("=") raises ValueError unless exactly 2 fields
unpack_ok(header) == \A i \in 1..Len(header) : Len(header[i]) = 2

\* main.py:53-54  dict comprehension (a later pair replaces an earlier one
\* with the same key), then parts.get("v1")
parts_get(header, key) ==
    LET at == {i \in 1..Len(header) : header[i][1] = key}
    IN  IF at = {} THEN NoneValue
        ELSE header[CHOOSE i \in at : \A k \in at : k <= i][2]

\* try block without the comparison of line 68
try_body_no_compare(payload, header, secret) ==
    IF ~unpack_ok(header) THEN "ValueError"
    ELSE LET signature == parts_get(header, "v1")
         IN  IF signature = NoneValue \/ signature = "" THEN "HTTPException"
             ELSE IF secret = NoSecret THEN "AttributeError"
             ELSE "none"

\* main.py:52-69  the body of the try block: the exception it raises, or
\* "none" when it runs to its end
try_body(payload, header, secret) ==
    IF ~unpack_ok(header) THEN "ValueError"
    ELSE LET signature == parts_get(header, "v1")
         IN  IF signature = NoneValue \/ signature = "" THEN "HTTPException"
             ELSE IF secret = NoSecret THEN "AttributeError"
             ELSE IF ~compare_digest(hmac_new(secret, payload), signature)
                  THEN "HTTPException"
             ELSE "none"

\* except HTTPException in place of except Exception
except_only_http(exc) ==
    IF exc = "none" THEN [raised |-> "none", status_code |-> 200]
    ELSE IF exc = "HTTPException"
         THEN [raised |-> "HTTPException", status_code |-> 403]
         ELSE [raised |-> exc, status_code |-> 500]

\* main.py:71-73  except Exception: every exception of the try block,
\* HTTPException included, is re-raised as HTTPException(403)
except_clause(exc) ==
    IF exc = "none" THEN [raised |-> "none", status_code |-> 200]
    ELSE [raised |-> "HTTPException", status_code |-> 403]

\* main.py:43-73
verify_signature(payload, header, secret) ==
    IF header = NoHeader \/ header = EmptyHeader
    THEN [raised |-> "HTTPException", status_code |-> 403]
    ELSE except_clause(try_body(payload, header, secret))

---------------------------------------------------------------------------
(* Webhook request bodies.  A raw body is a byte string, here a number;    *)
(* request.json() decodes it.  Body 0 is not JSON, 1 is a JSON array, 2 an *)
(* object without "job", 3 an object whose "job" is null; from 4 on the    *)
(* body is {"event": .., "job": {"id": .., "tasks": .., "message": ..}},   *)
(* the job id and the variant (event, tasks, message, progress) being      *)
(* decoded from the bytes.                                                 *)

JobIds == 1..MaxJobs

\* 4 fixed bodies, then 7 variants for each job id of 0..MaxJobs
RawBodies == 0..(4 + (MaxJobs + 1) * 7 - 1)

\* the event, tasks and message of variant v of a job body
variant_event(v) ==
    IF v \in 0..2 THEN "job.finished"
    ELSE IF v \in 3..4 THEN "job.failed"
    ELSE "job.created"

variant_tasks(v) ==
    CASE v = 0 -> "import_only"        \* no export/url task that is finished
      [] v = 1 -> "export_no_files"    \* finished export task, files = []
      [] v = 2 -> "export_file"        \* finished export task with one file
      [] OTHER -> "import_only"

\* a task of the job's task list: its "operation", its "status" and the
\* list at result.files (empty when the task has no result or no files)
task(operation, status, files) ==
    [operation |-> operation, status |-> status, files |-> files]

\* the task list of a body: the tasks create_job asks for, as far as they
\* have come
tasks_of(shape, url, filename) ==
    LET upload == task("import/upload", "finished", << >>)
        convert == task("convert", "finished", << >>)
    IN  CASE shape = "import_only" -> <<upload>>
          [] shape = "export_no_files" ->
                <<upload, convert, task("export/url", "finished", << >>)>>
          [] OTHER ->
                <<upload, convert,
                  task("export/url", "finished",
                       <<[url |-> url, filename |-> filename]>>)>>

variant_message(v) == IF v = 3 THEN "corrupt input" ELSE NoneValue

variant_progress(v) == IF v = 6 THEN 50 ELSE -1

\* Starlette's request.json(): json.loads(body)
json_loads(bytes) ==
    IF bytes = 0 THEN [json |-> "invalid"]
    ELSE IF bytes = 1 THEN [json |-> "array"]
    ELSE IF bytes = 2
         THEN [json |-> "object", job |-> "absent", event |-> "job.finished"]
    ELSE IF bytes = 3
         THEN [json |-> "object", job |-> "null", event |-> "job.finished"]
    ELSE LET m == bytes - 4
             v == m \div (MaxJobs + 1)
         IN  [json |-> "object", job |-> "object",
              id |-> m % (MaxJobs + 1),        \* 0: the job has no "id"
              event |-> variant_event(v),
              tasks |-> tasks_of(variant_tasks(v), bytes, "report.pdf"),
              filename |-> "report.pdf",
              url |-> bytes,
              message |-> variant_message(v),
              progress |-> variant_progress(v)]

\* extraction that takes the first export/url task whatever its status
extract_download_url_any_status(job_data) ==
    LET tasks == job_data.tasks
        found == {i \in 1..Len(tasks) : tasks[i].operation = "export/url"}
    IN  IF found = {}
        THEN [raised |-> "ValueError",
              detail |-> "No finished export task found in job data"]
        ELSE LET export_task ==
                     tasks[CHOOSE i \in found : \A k \in found : i <= k]
             IN  IF export_task.files = << >>
                 THEN [raised |-> "ValueError",
                       detail |-> "No files found in export task result"]
                 ELSE [raised |-> "none", url |-> export_task.files[1].url,
                       filename |-> export_task.files[1].filename]

\* cloudconvert_service.py:61-82
extract_download_url(job_data) ==
    LET tasks == job_data.tasks
        found == {i \in 1..Len(tasks) :
                     /\ tasks[i].operation = "export/url"
                     /\ tasks[i].status = "finished"}
    IN  IF found = {}
        THEN [raised |-> "ValueError",
              detail |-> "No finished export task found in job data"]
        ELSE LET export_task ==
                     tasks[CHOOSE i \in found : \A k \in found : i <= k]
             IN  IF export_task.files = << >>
                 THEN [raised |-> "ValueError",
                       detail |-> "No files found in export task result"]
                 ELSE [raised |-> "none", url |-> export_task.files[1].url,
                       filename |-> export_task.files[1].filename]

---------------------------------------------------------------------------
(* The registry and the two directories are dictionaries: functions whose  *)
(* domain is the set of keys present.                                      *)

EmptyDict == [k \in {} |-> 0]

put(dict, key, value) ==
    [k \in DOMAIN dict \cup {key} |-> IF k = key THEN value ELSE dict[k]]

Contents == {"bytes1", "bytes2"}

Idle == [kind |-> "idle"]

Slots == 1..MaxInflight

\* a request arrives
arrive == served < MaxRequests /\ served' = served + 1

\* a handler that suspends takes the first free slot; a request whose
\* handler would suspend is not taken while every slot is in use
free(slot) ==
    reqs[slot] = Idle /\ \A s \in DOMAIN reqs : s < slot => reqs[s] # Idle

NoResponse == [kind |-> "none"]

\* a record that starts as finished
new_job_finished(filename) ==
    [status |-> "finished", progress |-> 100, filename |-> filename,
     output |-> NoneValue, message |-> NoneValue]

\* main.py:115-119  the record convert_file creates
new_job(filename) ==
    [status |-> "processing", progress |-> 0, filename |-> filename,
     output |-> NoneValue, message |-> NoneValue]

---------------------------------------------------------------------------
(* cloudconvert_webhook (main.py:133-191).                                 *)

\* main.py:137-140  the body is decoded before anything else; the except
\* clause names json.JSONDecodeError, and main.py imports no json, so an
\* undecodable body ends in NameError
parse_step(bytes) ==
    IF json_loads(bytes).json = "invalid" THEN "NameError" ELSE "none"

\* main.py:146  payload.get("job", {}).get("id")
job_id_step(payload) ==
    IF payload.json # "object" THEN [raised |-> "AttributeError"]
    ELSE IF payload.job = "null" THEN [raised |-> "AttributeError"]
    ELSE IF payload.job = "absent" THEN [raised |-> "none", id |-> 0]
    ELSE [raised |-> "none", id |-> payload.id]

\* except clause that records the message and leaves the status alone
mark_download_message_only(job, detail) ==
    [job EXCEPT !.message = "Download failed: " \o detail]

\* main.py:174-176  except Exception around extraction, fetch and write
mark_download_failed(job, detail) ==
    [job EXCEPT !.status = "failed",
                !.message = "Download failed: " \o detail]

\* main.py:170-172
mark_finished(job, filename) ==
    [job EXCEPT !.status = "finished", !.progress = 100,
                !.output = "outputs/" \o filename]

\* a job.failed branch that leaves the progress alone
mark_failed_keeps_progress(job, payload) ==
    [job EXCEPT !.status = "failed",
                !.message = IF payload.message = NoneValue
                            THEN "Unknown error" ELSE payload.message]

\* main.py:178-181
mark_failed(job, payload) ==
    [job EXCEPT !.status = "failed", !.progress = 100,
                !.message = IF payload.message = NoneValue
                            THEN "Unknown error" ELSE payload.message]

\* main.py:183-189  any other event: pass
other_event(job, payload) == job

\* a response of the webhook receiver: the delivery it answers, the status
\* code, the steps the handler ran, the exception that ended it ("none" when
\* it ran to its end), the job id it acted on (0: none) and the registry as
\* the step that sent the response found it
hook_response(bytes, header, code, trace, error, job_id) ==
    [kind |-> "webhook", bytes |-> bytes, header |-> header, code |-> code,
     trace |-> trace, error |-> error, job |-> job_id, before |-> jobs]

\* main.py:136-160, 174-191: the handler from the arrival of a delivery to
\* its response, or to its suspension at the fetch of the output (line 163)
WebhookReceive(bytes, header) ==
    /\ arrive
    /\ UNCHANGED <<WEBHOOK_SECRET, uploads, outputs, issued, seenTerminal, sig,
                   fetched>>
    /\ LET payload == json_loads(bytes)
           verdict == verify_signature(bytes, header, WEBHOOK_SECRET)
           jid == job_id_step(payload)
       IN
       IF parse_step(bytes) # "none"
       THEN /\ last' = hook_response(bytes, header, 500, <<"parse">>,
                                     parse_step(bytes), 0)
            /\ UNCHANGED <<jobs, reqs, hookFailed, hooked>>
       ELSE IF verdict.raised # "none"
       THEN /\ last' = hook_response(bytes, header, verdict.status_code,
                                     <<"parse", "verify">>, verdict.raised, 0)
            /\ UNCHANGED <<jobs, reqs, hookFailed, hooked>>
       ELSE IF jid.raised # "none"
       THEN /\ last' = hook_response(bytes, header, 500,
                           <<"parse", "verify", "job_id">>, jid.raised, 0)
            /\ UNCHANGED <<jobs, reqs, hookFailed, hooked>>
       ELSE IF jid.id = 0 \/ jid.id \notin DOMAIN jobs
       THEN /\ last' = hook_response(bytes, header, 200,
                           <<"parse", "verify", "job_id">>, "none", jid.id)
            /\ UNCHANGED <<jobs, reqs, hookFailed, hooked>>
       ELSE IF payload.event = "job.finished"
       THEN LET got == extract_download_url(payload)
            IN  IF got.raised # "none"
                THEN /\ jobs' = [jobs EXCEPT ![jid.id] =
                                    mark_download_failed(@, got.detail)]
                     /\ last' = hook_response(bytes, header, 200,
                           <<"parse", "verify", "job_id", "extract">>,
                           got.raised, jid.id)
                     /\ hooked' = hooked \cup {jid.id}
                     /\ UNCHANGED <<reqs, hookFailed>>
                ELSE /\ \E slot \in DOMAIN reqs :
                          /\ free(slot)
                          /\ reqs' = [reqs EXCEPT ![slot] =
                                    [kind |-> "webhook", pc |-> "fetch",
                                     bytes |-> bytes, header |-> header,
                                     job_id |-> jid.id, url |-> got.url,
                                     filename |-> got.filename]]
                     /\ UNCHANGED <<jobs, last, hookFailed, hooked>>
       ELSE IF payload.event = "job.failed"
       THEN /\ jobs' = [jobs EXCEPT ![jid.id] = mark_failed(@, payload)]
            /\ hookFailed' = hookFailed \cup {jid.id}
            /\ hooked' = hooked \cup {jid.id}
            /\ last' = hook_response(bytes, header, 200,
                           <<"parse", "verify", "job_id", "failed">>,
                           "none", jid.id)
            /\ UNCHANGED reqs
       ELSE /\ jobs' = [jobs EXCEPT ![jid.id] = other_event(@, payload)]
            /\ last' = hook_response(bytes, header, 200,
                           <<"parse", "verify", "job_id", "other">>,
                           "none", jid.id)
            /\ hooked' = hooked \cup {jid.id}
            /\ UNCHANGED <<reqs, hookFailed>>

\* main.py:162-176: the fetch of the output returns or fails, the bytes are
\* written under the extracted filename, the record is updated
WebhookFetched(slot, fetch) ==
    /\ reqs[slot] # Idle
    /\ reqs[slot].kind = "webhook"
    /\ reqs[slot].pc = "fetch"
    /\ LET r == reqs[slot]
           steps == <<"parse", "verify", "job_id", "extract", "fetch">>
       IN
       /\ reqs' = [reqs EXCEPT ![slot] = Idle]
       /\ hooked' = hooked \cup {r.job_id}
       /\ IF fetch.outcome = "fetch_error"
          THEN /\ jobs' = [jobs EXCEPT ![r.job_id] =
                              mark_download_failed(@, "fetch error")]
               /\ UNCHANGED <<outputs, fetched>>
               /\ last' = hook_response(r.bytes, r.header, 200, steps,
                                        "HTTPError", r.job_id)
          ELSE IF fetch.outcome = "write_error"
          THEN /\ jobs' = [jobs EXCEPT ![r.job_id] =
                              mark_download_failed(@, "write error")]
               /\ UNCHANGED <<outputs, fetched>>
               /\ last' = hook_response(r.bytes, r.header, 200,
                              Append(steps, "write"), "OSError", r.job_id)
          ELSE /\ outputs' = put(outputs, "outputs/" \o r.filename,
                                 fetch.content)
               /\ fetched' = put(fetched, r.job_id, fetch.content)
               /\ jobs' = [jobs EXCEPT ![r.job_id] =
                              mark_finished(@, r.filename)]
               /\ last' = hook_response(r.bytes, r.header, 200,
                              Append(steps, "write"), "none", r.job_id)
    /\ UNCHANGED <<WEBHOOK_SECRET, uploads, issued, served, seenTerminal,
                   hookFailed, sig>>

FetchOutcomes ==
    {[outcome |-> "fetch_error"], [outcome |-> "write_error"]}
    \cup {[outcome |-> "ok", content |-> c] : c \in Contents}

\* the signature headers of the deliveries: absent, signed over the body
\* with the collaborator's key, signed with another key
HookHeaders(bytes) ==
    {NoHeader,
     << <<"t", "123">>, <<"v1", hmac_new("k1", bytes)>> >>,
     << <<"t", "123">>, <<"v1", hmac_new("k2", bytes)>> >>}

---------------------------------------------------------------------------
(* validate_file and convert_file (main.py:76-121), create_job             *)
(* (cloudconvert_service.py:14-59).  A filename is the sequence of its     *)
(* "."-separated parts.                                                    *)

MAX_FILE_SIZE_MB == 20

ALLOWED_EXTENSIONS == {"pdf", "docx", "doc", "png", "jpg", "jpeg", "mp4", "mp3"}

lower(str) ==
    CASE str = "DOCX" -> "docx"
      [] str = "JPG" -> "jpg"
      [] OTHER -> str

\* validation that looks at the extension only
validate_file_extension_only(file) ==
    LET ext == lower(file.filename[Len(file.filename)])
    IN  IF ext \notin ALLOWED_EXTENSIONS
        THEN [raised |-> "HTTPException", status_code |-> 400,
              detail |-> "Unsupported file type"]
        ELSE [raised |-> "none", status_code |-> 200, detail |-> ""]

\* main.py:76-89
validate_file(file) ==
    LET ext == lower(file.filename[Len(file.filename)])
    IN  IF ext \notin ALLOWED_EXTENSIONS
        THEN [raised |-> "HTTPException", status_code |-> 400,
              detail |-> "Unsupported file type"]
        ELSE IF file.size_mb > MAX_FILE_SIZE_MB
        THEN [raised |-> "HTTPException", status_code |-> 400,
              detail |-> "File too large"]
        ELSE [raised |-> "none", status_code |-> 200, detail |-> ""]

UploadFiles ==
    [filename : {<<"report", "DOCX">>, <<"setup", "exe">>},
     size_mb : {MAX_FILE_SIZE_MB, MAX_FILE_SIZE_MB + 1},
     content : Contents]

convert_response(code, job_id) ==
    [kind |-> "convert", code |-> code, job |-> job_id, before |-> jobs]

\* main.py:97-110: validation, the write of the input file, and the
\* suspension at the job-creation call (cloudconvert_service.py:16)
ConvertReceive(file) ==
    /\ arrive
    /\ LET v == validate_file(file)
       IN  IF v.raised # "none"
           THEN /\ last' = convert_response(v.status_code, 0)
                /\ UNCHANGED <<uploads, reqs>>
           ELSE /\ uploads' = put(uploads, file.filename, file.content)
                /\ \E slot \in DOMAIN reqs :
                      /\ free(slot)
                      /\ reqs' = [reqs EXCEPT ![slot] =
                              [kind |-> "convert", pc |-> "post_job",
                               filename |-> file.filename,
                               content |-> file.content]]
                /\ UNCHANGED last
    /\ UNCHANGED <<WEBHOOK_SECRET, jobs, outputs, issued, seenTerminal,
                   hookFailed, sig, fetched, hooked>>

\* what the job-creation call can come back with: an exception of the
\* client (network), an error status (raise_for_status, line 41), a body
\* without "data", "tasks" or an import/upload task (lines 42-46), or the
\* created job
JobReplies == {"error", "error_status", "malformed", "created"}

\* what the upload to the presigned URL can come back with: an exception of
\* the client, a response with an error status, a response with a success
\* status; create_job does not look at the response (lines 52-56)
FileReplies == {"error", "error_status", "sent"}

\* the record created as soon as the job id is known, and again at the end
ConvertJobPosted_registers_early(slot, reply) ==
    /\ reqs[slot] # Idle
    /\ reqs[slot].kind = "convert"
    /\ reqs[slot].pc = "post_job"
    /\ IF reply # "created"
       THEN /\ reqs' = [reqs EXCEPT ![slot] = Idle]
            /\ last' = [kind |-> "convert", code |-> 500, job |-> 0,
                        before |-> jobs]
            /\ UNCHANGED <<issued, jobs>>
       ELSE /\ issued < MaxJobs
            /\ issued' = issued + 1
            /\ jobs' = put(jobs, issued + 1, new_job(reqs[slot].filename))
            /\ reqs' = [reqs EXCEPT ![slot] =
                          [kind |-> "convert", pc |-> "post_file",
                           filename |-> reqs[slot].filename,
                           content |-> reqs[slot].content,
                           job_id |-> issued + 1,
                           sent |-> uploads[reqs[slot].filename]]]
            /\ UNCHANGED last
    /\ UNCHANGED <<WEBHOOK_SECRET, uploads, outputs, served,
                   seenTerminal, hookFailed, sig, fetched, hooked>>

\* cloudconvert_service.py:16-57: the job-creation call returns; on success
\* the input file is read back and its upload to the presigned URL starts
ConvertJobPosted(slot, reply) ==
    /\ reqs[slot] # Idle
    /\ reqs[slot].kind = "convert"
    /\ reqs[slot].pc = "post_job"
    /\ IF reply # "created"
       THEN /\ reqs' = [reqs EXCEPT ![slot] = Idle]
            /\ last' = convert_response(500, 0)
            /\ UNCHANGED issued
       ELSE /\ issued < MaxJobs
            /\ issued' = issued + 1
            /\ reqs' = [reqs EXCEPT ![slot] =
                          [kind |-> "convert", pc |-> "post_file",
                           filename |-> reqs[slot].filename,
                           content |-> reqs[slot].content,
                           job_id |-> issued + 1,
                           sent |-> uploads[reqs[slot].filename]]]
            /\ UNCHANGED last
    /\ UNCHANGED <<WEBHOOK_SECRET, jobs, uploads, outputs, served,
                   seenTerminal, hookFailed, sig, fetched, hooked>>

\* cloudconvert_service.py:53-59, main.py:111-121: the upload call returns
\* (its status is not looked at) or raises; the record is created
ConvertFilePosted(slot, reply) ==
    /\ reqs[slot] # Idle
    /\ reqs[slot].kind = "convert"
    /\ reqs[slot].pc = "post_file"
    /\ reqs' = [reqs EXCEPT ![slot] = Idle]
    /\ IF reply = "error"
       THEN /\ last' = convert_response(500, 0)
            /\ UNCHANGED jobs
       ELSE /\ jobs' = put(jobs, reqs[slot].job_id,
                           new_job(reqs[slot].filename))
            /\ last' = convert_response(200, reqs[slot].job_id)
    /\ UNCHANGED <<WEBHOOK_SECRET, uploads, outputs, issued, served,
                   seenTerminal, hookFailed, sig, fetched, hooked>>

---------------------------------------------------------------------------
(* get_progress (main.py:124-130) and download (main.py:194-207).          *)

\* main.py:124-130
GetProgress(job_id) ==
    /\ arrive
    /\ IF job_id \notin DOMAIN jobs
       THEN /\ last' = [kind |-> "progress", code |-> 404, job |-> job_id,
                        status |-> NoneValue, progress |-> -1,
                        again |-> FALSE]
            /\ UNCHANGED seenTerminal
       ELSE /\ last' = [kind |-> "progress", code |-> 200, job |-> job_id,
                        status |-> jobs[job_id].status,
                        progress |-> jobs[job_id].progress,
                        again |-> job_id \in seenTerminal]
            /\ seenTerminal' =
                  IF jobs[job_id].status \in {"finished", "failed"}
                  THEN seenTerminal \cup {job_id} ELSE seenTerminal
    /\ UNCHANGED <<WEBHOOK_SECRET, jobs, uploads, outputs, issued, reqs,
                   hookFailed, sig, fetched, hooked>>

\* main.py:194-207.  A record without "output" gives Path(""), the current
\* directory, which exists: lines 201-202 do not raise and FileResponse is
\* handed a directory, which it cannot serve
Download(job_id) ==
    /\ arrive
    /\ IF job_id \notin DOMAIN jobs
       THEN last' = [kind |-> "download", code |-> 404, job |-> job_id,
                     content |-> NoneValue]
       ELSE IF jobs[job_id].status # "finished"
       THEN last' = [kind |-> "download", code |-> 404, job |-> job_id,
                     content |-> NoneValue]
       ELSE IF jobs[job_id].output = NoneValue
       THEN last' = [kind |-> "download", code |-> 500, job |-> job_id,
                     content |-> NoneValue]
       ELSE IF jobs[job_id].output \notin DOMAIN outputs
       THEN last' = [kind |-> "download", code |-> 404, job |-> job_id,
                     content |-> NoneValue]
       ELSE last' = [kind |-> "download", code |-> 200, job |-> job_id,
                     content |-> outputs[jobs[job_id].output]]
    /\ UNCHANGED <<WEBHOOK_SECRET, jobs, uploads, outputs, issued, reqs,
                   seenTerminal, hookFailed, sig, fetched, hooked>>

---------------------------------------------------------------------------
(* The service: requests arrive and suspended handlers resume in any       *)
(* order.                                                                  *)

Init ==
    /\ WEBHOOK_SECRET = "k1"
    /\ jobs = EmptyDict
    /\ uploads = EmptyDict
    /\ outputs = EmptyDict
    /\ issued = 0
    /\ served = 0
    /\ reqs = [s \in Slots |-> Idle]
    /\ last = NoResponse
    /\ seenTerminal = {}
    /\ hookFailed = {}
    /\ sig = [state |-> "none"]
    /\ fetched = EmptyDict
    /\ hooked = {}

Next ==
    \/ \E f \in UploadFiles : ConvertReceive(f)
    \/ \E s \in Slots, r \in JobReplies : ConvertJobPosted(s, r)
    \/ \E s \in Slots, r \in FileReplies : ConvertFilePosted(s, r)
    \/ \E b \in RawBodies : \E h \in HookHeaders(b) : WebhookReceive(b, h)
    \/ \E s \in Slots, f \in FetchOutcomes : WebhookFetched(s, f)
    \/ \E j \in JobIds : GetProgress(j)
    \/ \E j \in JobIds : Download(j)

Spec == Init /\ [][Next]_vars

---------------------------------------------------------------------------
(* Inputs of verify_signature checked on its own (SpecSig).                *)

SigBodies == 1..MaxSigBodies

SigDigests == {hmac_new(k, m) : k \in Secrets, m \in SigBodies}

SigValues == SigDigests \cup {"", "123"}

SigElements ==
    {<<f>> : f \in {"", "v1", "junk"}}
    \cup {<<k, v>> : k \in {"t", "v1"}, v \in SigValues}
    \cup {<<"v1", v, "x">> : v \in SigDigests}

RECURSIVE SeqsUpTo(_, _)
SeqsUpTo(S, n) ==
    IF n = 0 THEN {<< >>}
    ELSE LET shorter == SeqsUpTo(S, n - 1)
         IN  shorter \cup {Append(s, e) : s \in shorter, e \in S}

SigHeaders == SeqsUpTo(SigElements, MaxPairs)

InitSig ==
    /\ WEBHOOK_SECRET \in Secrets \cup {NoSecret}
    /\ jobs = << >>
    /\ uploads = << >>
    /\ outputs = << >>
    /\ issued = 0
    /\ served = 0
    /\ reqs = << >>
    /\ last = NoResponse
    /\ seenTerminal = {}
    /\ hookFailed = {}
    /\ fetched = << >>
    /\ hooked = {}
    /\ \E p \in SigBodies, h \in SigHeaders :
          sig = [state |-> "called", payload |-> p, header |-> h]

VerifyCall ==
    /\ sig.state = "called"
    /\ sig' = [state |-> "returned", payload |-> sig.payload,
               header |-> sig.header,
               result |-> verify_signature(sig.payload, sig.header,
                                           WEBHOOK_SECRET)]
    /\ UNCHANGED <<WEBHOOK_SECRET, jobs, uploads, outputs, issued, served,
                   reqs, last, seenTerminal, hookFailed, fetched,
                   hooked>>

NextSig == VerifyCall

SpecSig == InitSig /\ [][NextSig]_vars

---------------------------------------------------------------------------
(* Inputs of extract_download_url checked on its own (SpecExtract): task   *)
(* lists of up to MaxTasks tasks, with export tasks that are not finished, *)
(* that have no files, or that have two.                                   *)

ExportFiles ==
    LET a == [url |-> "https://storage/a", filename |-> "a.pdf"]
        b == [url |-> "https://storage/b", filename |-> "b.pdf"]
    IN  {<< >>, <<a, b>>, <<b>>}

Tasks ==
    {task(o, st, f) : o \in {"import/upload", "export/url"},
                      st \in {"finished", "waiting"}, f \in ExportFiles}

TaskLists == SeqsUpTo(Tasks, MaxTasks)

InitExtract ==
    /\ WEBHOOK_SECRET = "k1"
    /\ jobs = << >>
    /\ uploads = << >>
    /\ outputs = << >>
    /\ issued = 0
    /\ served = 0
    /\ reqs = << >>
    /\ last = NoResponse
    /\ seenTerminal = {}
    /\ hookFailed = {}
    /\ fetched = << >>
    /\ hooked = {}
    /\ \E t \in TaskLists :
          sig = [state |-> "called", job_data |-> [tasks |-> t]]

ExtractCall ==
    /\ sig.state = "called"
    /\ sig' = [state |-> "returned", job_data |-> sig.job_data,
               result |-> extract_download_url(sig.job_data)]
    /\ UNCHANGED <<WEBHOOK_SECRET, jobs, uploads, outputs, issued, served,
                   reqs, last, seenTerminal, hookFailed, fetched,
                   hooked>>

NextExtract == ExtractCall

SpecExtract == InitExtract /\ [][NextExtract]_vars

---------------------------------------------------------------------------
(* The registry under threads (SpecThreads).  convert_file and             *)
(* cloudconvert_webhook are coroutines of the event loop: between two      *)
(* awaits nothing else of the loop runs.  get_progress and download are    *)
(* plain functions, which the framework runs in worker threads: they read  *)
(* the registry at any point of the loop's thread, also between lines 170, *)
(* 171 and 172.  No lock is taken anywhere in main.py.                     *)

\* main.py:163-170: the fetch succeeded, the file is written, the status is
\* assigned
WebhookSetStatus(slot, fetch) ==
    /\ reqs[slot] # Idle
    /\ reqs[slot].kind = "webhook"
    /\ reqs[slot].pc = "fetch"
    /\ fetch.outcome = "ok"
    /\ outputs' = put(outputs, "outputs/" \o reqs[slot].filename,
                      fetch.content)
    /\ fetched' = put(fetched, reqs[slot].job_id, fetch.content)
    /\ jobs' = [jobs EXCEPT ![reqs[slot].job_id].status = "finished"]
    /\ hooked' = hooked \cup {reqs[slot].job_id}
    /\ reqs' = [reqs EXCEPT ![slot].pc = "line171"]
    /\ UNCHANGED <<WEBHOOK_SECRET, uploads, issued, served, last,
                   seenTerminal, hookFailed, sig>>

\* main.py:171
WebhookSetProgress(slot) ==
    /\ reqs[slot] # Idle
    /\ reqs[slot].kind = "webhook"
    /\ reqs[slot].pc = "line171"
    /\ jobs' = [jobs EXCEPT ![reqs[slot].job_id].progress = 100]
    /\ reqs' = [reqs EXCEPT ![slot].pc = "line172"]
    /\ UNCHANGED <<WEBHOOK_SECRET, uploads, outputs, issued, served, last,
                   seenTerminal, hookFailed, sig, fetched, hooked>>

\* main.py:172, 191
WebhookSetOutput(slot) ==
    /\ reqs[slot] # Idle
    /\ reqs[slot].kind = "webhook"
    /\ reqs[slot].pc = "line172"
    /\ jobs' = [jobs EXCEPT ![reqs[slot].job_id].output =
                               "outputs/" \o reqs[slot].filename]
    /\ last' = hook_response(reqs[slot].bytes, reqs[slot].header, 200,
                   <<"parse", "verify", "job_id", "extract", "fetch",
                     "write">>, "none", reqs[slot].job_id)
    /\ reqs' = [reqs EXCEPT ![slot] = Idle]
    /\ UNCHANGED <<WEBHOOK_SECRET, uploads, outputs, issued, served,
                   seenTerminal, hookFailed, sig, fetched, hooked>>

\* the loop's thread is between two awaits of the webhook handler
loop_busy ==
    \E s \in DOMAIN reqs :
        reqs[s] # Idle /\ reqs[s].kind = "webhook"
        /\ reqs[s].pc \in {"line171", "line172"}

\* the uploads and deliveries of SpecThreads: accepted files, deliveries
\* signed with the configured secret
ThreadUploads == {f \in UploadFiles : validate_file(f).raised = "none"}

ThreadHeader(bytes) == << <<"t", "123">>, <<"v1", hmac_new("k1", bytes)>> >>

NextThreads ==
    \/ ~loop_busy /\ \E f \in ThreadUploads : ConvertReceive(f)
    \/ ~loop_busy /\ \E s \in DOMAIN reqs, r \in JobReplies :
                        ConvertJobPosted(s, r)
    \/ ~loop_busy /\ \E s \in DOMAIN reqs, r \in FileReplies :
                        ConvertFilePosted(s, r)
    \/ ~loop_busy /\ \E b \in RawBodies : WebhookReceive(b, ThreadHeader(b))
    \/ ~loop_busy /\ \E s \in DOMAIN reqs, f \in FetchOutcomes :
                        f.outcome # "ok" /\ WebhookFetched(s, f)
    \/ ~loop_busy /\ \E s \in DOMAIN reqs, f \in FetchOutcomes :
                        WebhookSetStatus(s, f)
    \/ \E s \in DOMAIN reqs : WebhookSetProgress(s)
    \/ \E s \in DOMAIN reqs : WebhookSetOutput(s)
    \/ \E j \in JobIds : GetProgress(j)
    \/ \E j \in JobIds : Download(j)

SpecThreads == Init /\ [][NextThreads]_vars

---------------------------------------------------------------------------
(* Jobs that share an output filename (SpecFiles).  The run starts when    *)
(* uploads of report.DOCX, served one after the other, have registered     *)
(* every job id; requests are counted from there.                          *)

InitRegistered ==
    /\ WEBHOOK_SECRET = "k1"
    /\ jobs = [j \in JobIds |-> new_job(<<"report", "DOCX">>)]
    /\ uploads = put(EmptyDict, <<"report", "DOCX">>, "bytes1")
    /\ outputs = EmptyDict
    /\ issued = MaxJobs
    /\ served = 0
    /\ reqs = [s \in Slots |-> Idle]
    /\ last = convert_response(200, MaxJobs)
    /\ seenTerminal = {}
    /\ hookFailed = {}
    /\ sig = [state |-> "none"]
    /\ fetched = EmptyDict
    /\ hooked = {}

NextFiles ==
    \/ \E b \in RawBodies : WebhookReceive(b, ThreadHeader(b))
    \/ \E s \in DOMAIN reqs, f \in FetchOutcomes : WebhookFetched(s, f)
    \/ \E j \in JobIds : GetProgress(j)
    \/ \E j \in JobIds : Download(j)

SpecFiles == InitRegistered /\ [][NextFiles]_vars

---------------------------------------------------------------------------
(* Uploads served at the same time (SpecUploads): one more handler than    *)
(* in Spec can be suspended, so that a second upload arrives while the     *)
(* first waits for the collaborator.  In a suspended upload, content is    *)
(* what the request carried and sent is what create_job read back from     *)
(* UPLOAD_DIR / filename for the presigned URL.                            *)

InitUploads ==
    /\ WEBHOOK_SECRET = "k1"
    /\ jobs = EmptyDict
    /\ uploads = EmptyDict
    /\ outputs = EmptyDict
    /\ issued = 0
    /\ served = 0
    /\ reqs = [s \in 1..(MaxInflight + 1) |-> Idle]
    /\ last = NoResponse
    /\ seenTerminal = {}
    /\ hookFailed = {}
    /\ sig = [state |-> "none"]
    /\ fetched = EmptyDict
    /\ hooked = {}

NextUploads ==
    \/ \E f \in UploadFiles : ConvertReceive(f)
    \/ \E s \in DOMAIN reqs, r \in JobReplies : ConvertJobPosted(s, r)
    \/ \E s \in DOMAIN reqs, r \in FileReplies : ConvertFilePosted(s, r)
    \/ \E j \in JobIds : GetProgress(j)

SpecUploads == InitUploads /\ [][NextUploads]_vars

---------------------------------------------------------------------------
(* What the properties below read off a delivery, stated without the       *)
(* handler: whether the header carries a well-formed v1 equal to the keyed *)
(* hash of the raw body, and what the body says.                           *)

ParsesToPairs(header) ==
    header # NoHeader /\ \A i \in 1..Len(header) : Len(header[i]) = 2

HasV1(header) == \E i \in 1..Len(header) : header[i][1] = "v1"

\* the value the pairs give v1, a later pair replacing an earlier one
V1Of(header) ==
    LET n == CHOOSE i \in 1..Len(header) :
                 /\ header[i][1] = "v1"
                 /\ \A k \in (i + 1)..Len(header) : header[k][1] # "v1"
    IN  header[n][2]

ValidSignature(bytes, header, secret) ==
    /\ ParsesToPairs(header)
    /\ HasV1(header)
    /\ secret # NoSecret
    /\ V1Of(header) = hmac_new(secret, bytes)

Rejected403 == [raised |-> "HTTPException", status_code |-> 403]

Terminal == {"finished", "failed"}

Authenticated(resp) ==
    resp.kind = "webhook"
    /\ ValidSignature(resp.bytes, resp.header, WEBHOOK_SECRET)

---------------------------------------------------------------------------
(* C1: once a job's state is finished or failed it never changes again,    *)
(* whatever authenticated deliveries follow and however they interleave.   *)
(* The code has no guard on the current state: a job.finished delivery     *)
(* after job.failed (or the reverse, or a failed fetch after finished)     *)
(* rewrites it.                                                            *)
C1_TerminalStateNeverChanges ==
    [][\A j \in DOMAIN jobs :
          jobs[j].status \in Terminal => jobs'[j].status = jobs[j].status]_vars

(* C2: a job the status handler has reported finished or failed is never   *)
(* reported processing by a later status request.                          *)
C2_NoProcessingAfterTerminalReport ==
    (last.kind = "progress" /\ last.job \in seenTerminal)
        => (last.code = 200 /\ last.status # "processing")

C2_Witness ==
    /\ last.kind = "progress"
    /\ last.again
    /\ last.status \in Terminal

(* C3: a delivery whose signature does not verify is rejected with the     *)
(* authentication error and leaves every job record unchanged, whatever    *)
(* its body is.  The handler decodes the body first, so an undecodable     *)
(* body with a bad signature ends in 500.                                  *)
C3_UnverifiedIsRejectedAndChangesNothing ==
    (last.kind = "webhook" /\ ~Authenticated(last))
        => (last.code = 403 /\ jobs = last.before)

(* C4: the body is parsed only after the signature has verified: no parse  *)
(* step precedes the verification step, and a delivery with an invalid     *)
(* signature gets the authentication rejection even when its body is not   *)
(* valid JSON.                                                             *)
C4_ParseOnlyAfterVerification ==
    last.kind = "webhook" =>
        /\ \A i \in 1..Len(last.trace) :
              last.trace[i] = "parse" =>
                  \E k \in 1..(i - 1) : last.trace[k] = "verify"
        /\ ~Authenticated(last) => last.code = 403

(* C5: verify_signature returns without error exactly when the header     *)
(* parses into key=value pairs whose v1 equals the hex keyed hash of the   *)
(* raw body under the configured secret, and rejects with 403 otherwise.   *)
C5_AcceptsExactlyValidSignatures ==
    sig.state = "returned" =>
        IF ValidSignature(sig.payload, sig.header, WEBHOOK_SECRET)
        THEN sig.result.raised = "none"
        ELSE sig.result = Rejected403

C5_Witness ==
    /\ sig.state = "returned"
    /\ sig.result.raised = "none"
    /\ Len(sig.header) = 2
    /\ sig.header[1][1] = "t"

(* C6: an absent or empty header, a header without a v1 pair and a         *)
(* malformed header (an element without "=", or with more than one) all    *)
(* end in the 403 rejection, never in another error.                       *)
C6_BadHeaderAlways403 ==
    (sig.state = "returned"
     /\ (\/ sig.header = NoHeader
         \/ sig.header = EmptyHeader
         \/ \E i \in 1..Len(sig.header) : Len(sig.header[i]) # 2
         \/ ~HasV1(sig.header)))
        => sig.result = Rejected403

C6_Witness ==
    /\ sig.state = "returned"
    /\ \E i \in 1..Len(sig.header) : Len(sig.header[i]) = 3
    /\ \E i \in 1..Len(sig.header) : Len(sig.header[i]) = 1
    /\ sig.result = Rejected403

(* C7: every delivery that passes signature verification is answered with  *)
(* the success acknowledgment, for every event, job id and payload shape.  *)
(* Stated for the deliveries whose body is JSON, the ones the handler      *)
(* takes as far as the verification: a signed body that is not an object,  *)
(* or whose "job" is not an object, ends in 500.                           *)
C7_AuthenticatedAlwaysAcknowledged ==
    (Authenticated(last) /\ json_loads(last.bytes).json # "invalid")
        => last.code = 200

(* C8: an authenticated delivery whose payload has no job identifier, or   *)
(* one that is not a key of the registry, gets a success response and      *)
(* leaves the registry unchanged.  Stated for payloads that are JSON       *)
(* objects; {"job": null} has no job identifier and ends in 500.           *)
C8_UnknownJobAcknowledgedAndIgnored ==
    LET payload == json_loads(last.bytes)
        named == IF payload.job = "object" THEN payload.id ELSE 0
    IN  (Authenticated(last)
         /\ payload.json = "object"
         /\ (named = 0 \/ named \notin DOMAIN last.before))
            => (last.code = 200 /\ jobs = last.before)

(* C9: after an authenticated job.finished delivery for a known job J is   *)
(* processed, J is finished with progress 100 and the path of the written  *)
(* file when extraction, fetch and write all succeeded, and failed with a  *)
(* "Download failed: ..." message when one of them failed; no other record *)
(* is changed.                                                             *)
DownloadFailedMessages ==
    {"Download failed: " \o d :
        d \in {"No finished export task found in job data",
               "No files found in export task result",
               "fetch error", "write error"}}

C9_FinishedDeliveryOutcome ==
    LET payload == json_loads(last.bytes)
        J == last.job
    IN  (Authenticated(last)
         /\ payload.json = "object" /\ payload.job = "object"
         /\ payload.event = "job.finished"
         /\ payload.id \in DOMAIN last.before)
            => /\ J = payload.id
               /\ last.code = 200
               /\ IF last.error = "none"
                  THEN /\ jobs[J].status = "finished"
                       /\ jobs[J].progress = 100
                       /\ jobs[J].output = "outputs/" \o payload.filename
                       /\ jobs[J].output \in DOMAIN outputs
                  ELSE /\ jobs[J].status = "failed"
                       /\ jobs[J].message \in DownloadFailedMessages
               /\ \A k \in DOMAIN jobs : k # J => jobs[k] = last.before[k]
               /\ DOMAIN jobs = DOMAIN last.before

C9_Witness ==
    /\ Authenticated(last)
    /\ last.error = "OSError"
    /\ Cardinality(DOMAIN jobs) = 2
    /\ jobs[last.job].status = "failed"

(* C10: after an authenticated job.failed delivery for a known job J is    *)
(* processed, J is failed with progress 100 and the collaborator's         *)
(* message; a later status request for J reports failed and a later        *)
(* download request for J returns not-found.  A job.finished delivery      *)
(* for J that is processed afterwards makes J finished (C1).               *)
C10_FailedDeliveryOutcome ==
    /\ LET payload == json_loads(last.bytes)
       IN  (Authenticated(last)
            /\ payload.json = "object" /\ payload.job = "object"
            /\ payload.event = "job.failed"
            /\ payload.id \in DOMAIN last.before)
               => /\ last.code = 200
                  /\ jobs[payload.id].status = "failed"
                  /\ jobs[payload.id].progress = 100
                  /\ payload.message # NoneValue
                        => jobs[payload.id].message = payload.message
    /\ (last.kind = "progress" /\ last.job \in hookFailed)
          => last.status = "failed"
    /\ (last.kind = "download" /\ last.job \in hookFailed)
          => last.code = 404

(* C11: an authenticated delivery for a known job J whose event is neither *)
(* job.finished nor job.failed sets J's progress to the progress the       *)
(* payload carries, leaves J's record as it was when the payload carries   *)
(* none, and in both cases leaves J's state alone.  The branch of the      *)
(* handler is "pass": a carried progress is never stored.                  *)
C11_OtherEventSetsProgress ==
    LET payload == json_loads(last.bytes)
        J == last.job
    IN  (Authenticated(last)
         /\ payload.json = "object" /\ payload.job = "object"
         /\ payload.event \notin {"job.finished", "job.failed"}
         /\ payload.id \in DOMAIN last.before)
            => /\ J = payload.id
               /\ jobs[J].status = last.before[J].status
               /\ IF payload.progress # -1
                  THEN jobs[J] = [last.before[J] EXCEPT
                                     !.progress = payload.progress]
                  ELSE jobs[J] = last.before[J]

(* C17: the registry is guarded against concurrent access: however a       *)
(* webhook handler interleaves with status and download requests served    *)
(* at the same time, no request reads a record that is finished while its  *)
(* progress is not 100 or its output path is not recorded.  main.py takes  *)
(* no lock, and the three assignments of lines 170-172 are separate.       *)
C17_NoPartialUpdateObserved ==
    [][\A j \in DOMAIN jobs :
          ((GetProgress(j) \/ Download(j)) /\ jobs[j].status = "finished")
              => (jobs[j].progress = 100 /\ jobs[j].output # NoneValue)]_vars

(* C12: a download request for J returns the file exactly when, at the     *)
(* time of the request, J is registered, J is finished and J's recorded    *)
(* output path is a file of the output directory; every other request is   *)
(* answered not-found.  A request served between lines 170 and 172 finds   *)
(* J finished with no path recorded, and is answered neither way (C17).    *)
C12_DownloadOnlyFinishedAndPresent ==
    [][\A j \in JobIds :
          Download(j) =>
              IF /\ j \in DOMAIN jobs
                 /\ jobs[j].status = "finished"
                 /\ jobs[j].output \in DOMAIN outputs
              THEN /\ last'.code = 200
                   /\ last'.content = outputs[jobs[j].output]
              ELSE last'.code = 404]_vars

(* C13: a successful download for J returns the bytes that were fetched    *)
(* from J's own export URL when J's job.finished delivery was processed,   *)
(* whatever other jobs finished in between, also jobs whose export task    *)
(* reports the same output filename.  The file is written under the        *)
(* filename alone: a second job reporting report.pdf replaces the first    *)
(* job's file.                                                             *)
C13_DownloadReturnsOwnBytes ==
    [][\A j \in JobIds :
          (Download(j) /\ last'.code = 200)
              => (j \in DOMAIN fetched /\ last'.content = fetched[j])]_vars

(* C14: an upload whose extension is not in the allow-list, or whose size  *)
(* is above the ceiling, is answered with a client error (400) before      *)
(* anything is written to the input directory and before any call to the   *)
(* collaborator starts, and no job record is created.                      *)
FailsValidation(file) ==
    \/ lower(file.filename[Len(file.filename)]) \notin ALLOWED_EXTENSIONS
    \/ file.size_mb > MAX_FILE_SIZE_MB

C14_InvalidUploadRejectedFirst ==
    [][\A f \in UploadFiles :
          (ConvertReceive(f) /\ FailsValidation(f))
              => /\ last'.kind = "convert"
                 /\ last'.code = 400
                 /\ uploads' = uploads
                 /\ reqs' = reqs
                 /\ jobs' = jobs
                 /\ issued' = issued]_vars

C14_Witness ==
    /\ last.kind = "convert"
    /\ last.code = 400
    /\ uploads = EmptyDict
    /\ jobs = EmptyDict
    /\ \A s \in DOMAIN reqs : reqs[s] = Idle

(* C15: when the submission to the collaborator fails, in the job-creation *)
(* call or in the upload of the file to the presigned URL, by a network    *)
(* error, an error status or a malformed response, the upload handler      *)
(* ends with a server error (500) and the registry is unchanged.  The      *)
(* response of the upload to the presigned URL is not looked at: an error  *)
(* status there is taken for success.                                      *)
C15_FailedSubmissionCreatesNoRecord ==
    [][\A s \in DOMAIN reqs :
          (\/ \E r \in JobReplies \ {"created"} : ConvertJobPosted(s, r)
           \/ \E r \in FileReplies \ {"sent"} : ConvertFilePosted(s, r))
              => /\ last'.kind = "convert"
                 /\ last'.code = 500
                 /\ jobs' = jobs]_vars

(* C16: a successful upload returns the job id J the collaborator issued,  *)
(* and from then on the registry holds J as processing with progress 0     *)
(* and every status request for J reports processing/0, until an           *)
(* authenticated delivery for J has been processed; a delivery that is     *)
(* not authenticated changes no record.                                    *)
C16_ProcessingUntilWebhook ==
    /\ (last.kind = "convert" /\ last.code = 200)
          => /\ last.job \in 1..issued
             /\ last.job \in DOMAIN jobs
             /\ last.job \notin DOMAIN last.before
    /\ \A j \in DOMAIN jobs \ hooked :
          jobs[j].status = "processing" /\ jobs[j].progress = 0
    /\ (last.kind = "progress" /\ last.job \in DOMAIN jobs \ hooked)
          => /\ last.code = 200
             /\ last.status = "processing"
             /\ last.progress = 0
    /\ (last.kind = "webhook" /\ jobs # last.before) => Authenticated(last)

C16_Witness ==
    /\ last.kind = "progress"
    /\ last.code = 200
    /\ last.status = "processing"
    /\ last.progress = 0
    /\ last.job \notin hooked
    /\ \E s \in DOMAIN reqs :
          reqs[s] # Idle /\ reqs[s].kind = "webhook"
          /\ reqs[s].job_id = last.job

(* C18, as stated: every job whose state is finished or failed has         *)
(* progress 100, also a job that became failed because extraction or      *)
(* fetch of the output failed while job.finished was handled.              *)
C18_TerminalHasFullProgress ==
    \A j \in DOMAIN jobs :
        jobs[j].status \in Terminal => jobs[j].progress = 100

(* C18, amended: once a delivery has been handled, every finished job has  *)
(* progress 100, and a failed job has progress 100 unless it became failed *)
(* because extraction, fetch or write of the output failed while it was    *)
(* processing: then it keeps progress 0 and carries a "Download failed:    *)
(* ..." message.                                                           *)
C18_TerminalProgress ==
    \A j \in DOMAIN jobs :
        /\ jobs[j].status = "finished" => jobs[j].progress = 100
        /\ jobs[j].status = "failed" =>
              \/ jobs[j].progress = 100
              \/ /\ jobs[j].progress = 0
                 /\ jobs[j].message \in DownloadFailedMessages
                 /\ j \notin hookFailed

C18_Witness ==
    \E j, k \in DOMAIN jobs :
        /\ jobs[j].status = "failed" /\ jobs[j].progress = 0
        /\ jobs[j].message = "Download failed: fetch error"
        /\ jobs[k].status = "failed" /\ jobs[k].progress = 100

(* C19: when two uploads with the same filename are served at the same     *)
(* time, what each request sends to the presigned URL is what that same    *)
(* request carried.  Both requests write UPLOAD_DIR / filename, and        *)
(* create_job reads the file back only after the job-creation call: the    *)
(* first request then sends what the second one wrote.                     *)
C19_EachUploadSendsItsOwnBytes ==
    \A s \in DOMAIN reqs :
        (reqs[s] # Idle /\ reqs[s].kind = "convert"
         /\ reqs[s].pc = "post_file")
            => reqs[s].sent = reqs[s].content

(* C20: extract_download_url returns the URL and the filename of the first *)
(* file of the first task of the list whose operation is export/url and    *)
(* whose status is finished; it raises ValueError when the list has no     *)
(* such task (also when its export task is there but not finished) or when *)
(* that task has no files.                                                 *)
IsFinishedExport(t) == t.operation = "export/url" /\ t.status = "finished"

C20_FirstFileOfFirstFinishedExport ==
    sig.state = "returned" =>
        LET tasks == sig.job_data.tasks
        IN  IF \E i \in 1..Len(tasks) : IsFinishedExport(tasks[i])
            THEN \E i \in 1..Len(tasks) :
                    /\ IsFinishedExport(tasks[i])
                    /\ \A k \in 1..(i - 1) : ~IsFinishedExport(tasks[k])
                    /\ IF Len(tasks[i].files) = 0
                       THEN sig.result.raised = "ValueError"
                       ELSE sig.result =
                               [raised |-> "none",
                                url |-> tasks[i].files[1].url,
                                filename |-> tasks[i].files[1].filename]
            ELSE sig.result.raised = "ValueError"

C20_Witness ==
    /\ sig.state = "returned"
    /\ Len(sig.job_data.tasks) = MaxTasks
    /\ sig.job_data.tasks[1].operation = "export/url"
    /\ sig.job_data.tasks[1].status = "waiting"
    /\ Len(sig.job_data.tasks[1].files) = 1
    /\ IsFinishedExport(sig.job_data.tasks[2])
    /\ Len(sig.job_data.tasks[2].files) = 2
    /\ IsFinishedExport(sig.job_data.tasks[MaxTasks])
    /\ sig.result.raised = "none"
    /\ sig.result.filename = "a.pdf"

====
